---- MODULE Spec2Model ----
(***************************************************************************)
(* Cost tracking backend: POST /api/add, GET /api/report,                  *)
(* GET /api/users/:id over the Users and Costs collections.                *)
(*                                                                         *)
(* Instants are integers counting minutes since 1970-01-01T00:00Z (the     *)
(* program counts milliseconds; every instant the model uses is a whole    *)
(* minute).  Strings are TLA+ strings; the strings that the program parses *)
(* character by character have their characters listed in Chars.           *)
(***************************************************************************)
EXTENDS Integers, Sequences, FiniteSets, TLC

(***************************************************************************)
(* Bounds of the model.                                                    *)
(***************************************************************************)
\* Largest number of documents the Costs collection holds.
MaxCosts == 2
\* Largest number of requests in flight at once.
MaxInFlight == 2

(***************************************************************************)
(* ECMAScript time arithmetic, as used by new Date(y, m, d) and            *)
(* Date.prototype.getUTCDate.                                              *)
(***************************************************************************)
MinPerDay == 1440

Day(t) == t \div MinPerDay

DaysInYear(y) ==
    IF y % 4 # 0 THEN 365
    ELSE IF y % 100 # 0 THEN 366
    ELSE IF y % 400 # 0 THEN 365
    ELSE 366

DayFromYear(y) ==
    365 * (y - 1970) + ((y - 1969) \div 4) - ((y - 1901) \div 100)
        + ((y - 1601) \div 400)

MinOf(a, b) == IF a <= b THEN a ELSE b

MaxOf(a, b) == IF a >= b THEN a ELSE b

\* The largest year whose first day is not after t.
YearFromTime(t) ==
    LET d  == Day(t)
        lo == 1970 + MinOf(d \div 366, d \div 365) - 1
        hi == 1970 + MaxOf(d \div 366, d \div 365) + 1
    IN  CHOOSE y \in lo..hi : DayFromYear(y) <= d /\ d < DayFromYear(y + 1)

DayWithinYear(t) == Day(t) - DayFromYear(YearFromTime(t))

\* Days of the year before month index m (0 = January) in a year of n days.
DaysBeforeMonth(m, n) ==
    LET leap == n - 365
    IN  CASE m = 0  -> 0
          [] m = 1  -> 31
          [] m = 2  -> 59 + leap
          [] m = 3  -> 90 + leap
          [] m = 4  -> 120 + leap
          [] m = 5  -> 151 + leap
          [] m = 6  -> 181 + leap
          [] m = 7  -> 212 + leap
          [] m = 8  -> 243 + leap
          [] m = 9  -> 273 + leap
          [] m = 10 -> 304 + leap
          [] m = 11 -> 334 + leap
          [] m = 12 -> 365 + leap

MonthFromTime(t) ==
    LET n == DaysInYear(YearFromTime(t))
        d == DayWithinYear(t)
    IN  CHOOSE m \in 0..11 :
            DaysBeforeMonth(m, n) <= d /\ d < DaysBeforeMonth(m + 1, n)

DateFromTime(t) ==
    DayWithinYear(t)
        - DaysBeforeMonth(MonthFromTime(t), DaysInYear(YearFromTime(t))) + 1

\* MakeDay: the month index overflows into the year (calendar carry).
MakeDay(year, month, date) ==
    LET ym == year + (month \div 12)
        mn == month % 12
    IN  DayFromYear(ym) + DaysBeforeMonth(mn, DaysInYear(ym)) + date - 1

\* new Date(year, monthIndex, date) in a process whose local time is
\* UTC + tz minutes: a year in 0..99 means 1900 + year; the fields are local
\* time, the value is the UTC instant.
NewDate(year, monthIndex, date, tz) ==
    LET yr == IF 0 <= year /\ year <= 99 THEN 1900 + year ELSE year
    IN  MakeDay(yr, monthIndex, date) * MinPerDay - tz

\* The instant year-month-day hour:minute UTC of the proleptic Gregorian
\* calendar, month in 1..12 (the instants the tests write as Date.UTC(...)).
CivilInstant(year, month, day, hour, minute) ==
    (DayFromYear(year) + DaysBeforeMonth(month - 1, DaysInYear(year)) + day - 1)
        * MinPerDay + 60 * hour + minute

getUTCDate(t) == DateFromTime(t)

(***************************************************************************)
(* Text to number.  NaN is [nan |-> TRUE, v |-> 0].                          *)
(***************************************************************************)
\* The characters of the strings the program parses.
Chars(s) ==
    CASE s = ""      -> <<>>
      [] s = " "     -> <<" ">>
      [] s = "1"     -> <<"1">>
      [] s = "2"     -> <<"2">>
      [] s = "3"     -> <<"3">>
      [] s = "4"     -> <<"4">>
      [] s = "5"     -> <<"5">>
      [] s = "6"     -> <<"6">>
      [] s = "7"     -> <<"7">>
      [] s = "8"     -> <<"8">>
      [] s = "9"     -> <<"9">>
      [] s = "10"    -> <<"1", "0">>
      [] s = "11"    -> <<"1", "1">>
      [] s = "12"    -> <<"1", "2">>
      [] s = "13"    -> <<"1", "3">>
      [] s = "99"    -> <<"9", "9">>
      [] s = "100"   -> <<"1", "0", "0">>
      [] s = "1999"  -> <<"1", "9", "9", "9">>
      [] s = "2024"  -> <<"2", "0", "2", "4">>
      [] s = "2025"  -> <<"2", "0", "2", "5">>
      [] s = " 6"    -> <<" ", "6">>
      [] s = "6 "    -> <<"6", " ">>
      [] s = "-5"    -> <<"-", "5">>
      [] s = "1x"    -> <<"1", "x">>
      [] s = "6.9"   -> <<"6", ".", "9">>
      [] s = "x"     -> <<"x">>
      [] s = "foo"   -> <<"f", "o", "o">>
      [] s = "undefined" -> <<"u", "n", "d", "e", "f", "i", "n", "e", "d">>

Digits == <<"0", "1", "2", "3", "4", "5", "6", "7", "8", "9">>

IsDigit(c) == \E i \in 1..10 : Digits[i] = c

DigitVal(c) == (CHOOSE i \in 1..10 : Digits[i] = c) - 1

NaN == [nan |-> TRUE, v |-> 0]

Number(n) == [nan |-> FALSE, v |-> n]

RECURSIVE SkipWhite(_)
SkipWhite(cs) ==
    IF cs # <<>> /\ Head(cs) = " " THEN SkipWhite(Tail(cs)) ELSE cs

RECURSIVE DropTrailingWhite(_)
DropTrailingWhite(cs) ==
    IF cs # <<>> /\ cs[Len(cs)] = " "
    THEN DropTrailingWhite(SubSeq(cs, 1, Len(cs) - 1))
    ELSE cs

\* The longest prefix of cs made of digits.
RECURSIVE DigitPrefix(_)
DigitPrefix(cs) ==
    IF cs # <<>> /\ IsDigit(Head(cs))
    THEN <<Head(cs)>> \o DigitPrefix(Tail(cs))
    ELSE <<>>

RECURSIVE DigitsValue(_, _)
DigitsValue(cs, acc) ==
    IF cs = <<>> THEN acc
    ELSE DigitsValue(Tail(cs), 10 * acc + DigitVal(Head(cs)))

\* Number(s) on a string of digits, signs, blanks and letters: the whole
\* trimmed string must be a literal; the empty string is 0.
ToNumber(s) ==
    LET t    == DropTrailingWhite(SkipWhite(Chars(s)))
        neg  == t # <<>> /\ Head(t) = "-"
        body == IF t # <<>> /\ Head(t) \in {"-", "+"} THEN Tail(t) ELSE t
    IN  IF t = <<>> THEN Number(0)
        ELSE IF body = <<>> \/ DigitPrefix(body) # body THEN NaN
        ELSE Number(IF neg THEN 0 - DigitsValue(body, 0)
                    ELSE DigitsValue(body, 0))

\* Mutant: parseInt(s, 10) || 0, a missing number read as 0.
parseIntOrZero(s) ==
    LET t    == SkipWhite(Chars(s))
        neg  == t # <<>> /\ Head(t) = "-"
        body == IF t # <<>> /\ Head(t) \in {"-", "+"} THEN Tail(t) ELSE t
        ds   == DigitPrefix(body)
    IN  IF ds = <<>> THEN Number(0)
        ELSE Number(IF neg THEN 0 - DigitsValue(ds, 0) ELSE DigitsValue(ds, 0))

\* Mutant: Number(s) for parseInt(s, 10): trailing text is not ignored.
parseIntWhole(s) == ToNumber(s)

\* parseInt(s, 10): leading white space and a sign are skipped, the longest
\* digit prefix is the value, whatever follows it is ignored; no digit: NaN.
parseInt(s) ==
    LET t    == SkipWhite(Chars(s))
        neg  == t # <<>> /\ Head(t) = "-"
        body == IF t # <<>> /\ Head(t) \in {"-", "+"} THEN Tail(t) ELSE t
        ds   == DigitPrefix(body)
    IN  IF ds = <<>> THEN NaN
        ELSE Number(IF neg THEN 0 - DigitsValue(ds, 0) ELSE DigitsValue(ds, 0))

\* String(n) for a one-digit number.
ToStringNumber(n) == Digits[n + 1]

(***************************************************************************)
(* JSON values of a request body.                                          *)
(***************************************************************************)
Undefined == [t |-> "undefined", n |-> 0, s |-> ""]

Null == [t |-> "null", n |-> 0, s |-> ""]

Num(n) == [t |-> "number", n |-> n, s |-> ""]

Str(s) == [t |-> "string", n |-> 0, s |-> s]

\* What a schema path holds when its value could not be cast.
CastError == [t |-> "CastError", n |-> 0, s |-> ""]

(***************************************************************************)
(* The Cost schema: casting at construction, validation at save.           *)
(***************************************************************************)
CategoryEnum == {"food", "health", "housing", "sport", "education"}

\* type: String.  A number is cast to its text.
castString(v) ==
    CASE v.t = "number" -> Str(ToStringNumber(v.n))
      [] OTHER          -> v

\* type: Number.  "" is cast to null, any other string goes through
\* Number(); a string that is no number is a cast error.
castNumber(v) ==
    CASE v.t = "string" /\ v.s = ""            -> Null
      [] v.t = "string" /\ ToNumber(v.s).nan   -> CastError
      [] v.t = "string" /\ ~ToNumber(v.s).nan  -> Num(ToNumber(v.s).v)
      [] OTHER                                 -> v

\* required: true on a String path: a string of positive length.
RequiredString(v) == v.t = "string" /\ v.s # ""

\* required: true on a Number path: a number.
RequiredNumber(v) == v.t = "number"

\* Mutant: an enum list that lacks "sport".
EnumValidatorFour(v) ==
    v.t \in {"undefined", "null"}
        \/ v.s \in {"food", "health", "housing", "education"}

\* Mutant: no enum on the category path.
EnumValidatorNone(v) == TRUE

\* enum on a String path: absent, or one of the listed values.
EnumValidator(v) == v.t \in {"undefined", "null"} \/ v.s \in CategoryEnum

\* new Cost({description, category, userid, sum}): every path is cast,
\* createdAt defaults to Date.now().
NewCost(body, now) ==
    [description |-> castString(body.description),
     category    |-> castString(body.category),
     userid      |-> castNumber(body.userid),
     sum         |-> castNumber(body.sum),
     createdAt   |-> now]

\* The paths of a document that fail validation.
InvalidPaths(doc) ==
    {p \in {"description"} :
        doc.description.t = "CastError" \/ ~RequiredString(doc.description)}
    \cup {p \in {"category"} :
        \/ doc.category.t = "CastError"
        \/ ~RequiredString(doc.category)
        \/ ~EnumValidator(doc.category)}
    \cup {p \in {"userid"} :
        doc.userid.t = "CastError" \/ ~RequiredNumber(doc.userid)}
    \cup {p \in {"sum"} :
        doc.sum.t = "CastError" \/ ~RequiredNumber(doc.sum)}

Validates(doc) == InvalidPaths(doc) = {}

\* The document as the collection stores it and as .lean() and JSON show it,
\* under the identifier id.
Stored(doc, id) ==
    [_id         |-> id,
     description |-> doc.description.s,
     category    |-> doc.category.s,
     userid      |-> doc.userid.n,
     sum         |-> doc.sum.n,
     createdAt   |-> doc.createdAt]

ValidationMessage == "Cost validation failed"

\* The message of the error a failed storage call rejects with.
StorageMessage == "storage unavailable"

(***************************************************************************)
(* State.                                                                  *)
(***************************************************************************)
VARIABLES
    tz,     \* local time of the server process: UTC + tz minutes
    users,  \* the Users collection
    costs,  \* the Costs collection, in insertion order
    reqs,   \* the requests in flight: what each suspended handler holds
    res     \* the response sent by the last step, if that step sent one

vars == <<tz, users, costs, reqs, res>>

Slots == 1..MaxInFlight

Idle == [op |-> "idle"]

NoResponse ==
    [req |-> Idle, status |-> 0, body |-> <<>>, calls |-> 0, fault |-> FALSE]

\* res.status(status).json(body) for request r, after `calls` storage calls
\* of which the last one rejected iff `fault`.
Respond(r, status, body, calls, fault) ==
    [req |-> r, status |-> status, body |-> body, calls |-> calls,
     fault |-> fault]

\* The identifier of the next document inserted: one no stored document
\* carries (documents are never deleted).
NextObjectId == Len(costs) + 1

(***************************************************************************)
(* Inputs.                                                                 *)
(***************************************************************************)
TimeZones == {-300, 0, 330}

\* Date.now() when a Cost is constructed.
ClockInstants == {CivilInstant(2025, 6, 15, 14, 0)}

BaseBodies ==
    {[description |-> Str("Lunch"), category |-> Str("food"),
      userid |-> Num(1), sum |-> Num(5)]}

\* The values one field of a base body is replaced by.
FieldValues(f) ==
    CASE f = "description" -> {Str("Lunch"), Undefined, Str(""), Num(7)}
      [] f = "category"    -> {Str("sport"), Undefined, Str("other")}
      [] f = "userid"      -> {Num(2), Undefined, Str("1"), Str("x")}
      [] f = "sum"         -> {Num(12), Undefined, Str("12"), Str("")}

Fields == {"description", "category", "userid", "sum"}

\* The request bodies: a base body with one field replaced.
Bodies ==
    UNION {{[b EXCEPT ![f] = v] : v \in FieldValues(f)} :
              <<b, f>> \in BaseBodies \X Fields}

\* Documents created directly through the model, createdAt supplied.
SampleUsers ==
    {[id |-> 1, first_name |-> "Alice", last_name |-> "Anderson"]}

SampleCosts ==
    {[description |-> "June lunch", category |-> "food", userid |-> 1,
      sum |-> 12, createdAt |-> CivilInstant(2025, 6, 1, 12, 0)],
     [description |-> "July rent", category |-> "housing", userid |-> 1,
      sum |-> 500, createdAt |-> CivilInstant(2025, 7, 1, 9, 0)],
     [description |-> "Gym", category |-> "sport", userid |-> 2,
      sum |-> 20, createdAt |-> CivilInstant(2025, 6, 15, 14, 0)]}

\* Calendar sweep: the years and months asked for, and the instants stored:
\* the first instant of every month of those years and of the years after
\* them, in every time zone.
CalYears == {99, 2024}

CalQueries ==
    [id : {"1"}, year : {"99", "2024"},
     month : {"1", "2", "3", "4", "5", "6", "7", "8", "9", "10", "11", "12"}]

CalInstants ==
    {CivilInstant(y, m, 1, 0, 0) - z :
        y \in CalYears \cup {x + 1 : x \in CalYears}, m \in 1..12, z \in TimeZones}

\* The report queries: a base query with one parameter replaced.
BaseQuery == [id |-> "1", year |-> "2025", month |-> "6"]

Queries ==
    {BaseQuery}
    \cup {[BaseQuery EXCEPT !.id = v] : v \in {"2", "1x", "foo"}}
    \cup {[BaseQuery EXCEPT !.year = v] : v \in {"x"}}
    \cup {[BaseQuery EXCEPT !.month = v] : v \in {"7", ""}}

ParamIds == {"1", "2", "1x", "foo"}

(***************************************************************************)
(* Documents created outside the API (User.create, Cost.create).           *)
(***************************************************************************)
CreateUser(u) ==
    /\ \A x \in users : x.id # u.id
    /\ users' = users \cup {u}
    /\ res' = NoResponse
    /\ UNCHANGED <<tz, costs, reqs>>

CreateCost(c) ==
    LET doc == [NewCost([description |-> Str(c.description),
                         category |-> Str(c.category),
                         userid |-> Num(c.userid), sum |-> Num(c.sum)],
                        c.createdAt)
                EXCEPT !.createdAt = c.createdAt]
    IN  /\ Len(costs) < MaxCosts
        /\ Validates(doc)
        /\ costs' = Append(costs, Stored(doc, NextObjectId))
        /\ res' = NoResponse
        /\ UNCHANGED <<tz, users, reqs>>

(***************************************************************************)
(* POST /api/add                                                           *)
(***************************************************************************)
\* Up to the await: the body is destructured and the document constructed.
AddBegin(s, bodies) ==
    /\ reqs[s] = Idle
    /\ \E body \in bodies, now \in ClockInstants :
        reqs' = [reqs EXCEPT ![s] =
                    [op |-> "add", pc |-> "save", body |-> body,
                     doc |-> NewCost(body, now)]]
    /\ res' = NoResponse
    /\ UNCHANGED <<tz, users, costs>>

\* The catch block of the add handler.
AddCatch(r, message, calls, fault) ==
    Respond(r, 400, [error |-> message], calls, fault)

\* Mutant: an add that deduplicates: a body equal to a stored cost is
\* answered 201 with that cost and nothing is inserted.
AddSaveDedup(s) ==
    LET r == reqs[s]
        Same(c) == [c EXCEPT !._id = 0, !.createdAt = 0] =
                   [Stored(r.doc, 0) EXCEPT !.createdAt = 0]
    IN  /\ r.op = "add" /\ r.pc = "save"
        /\ reqs' = [reqs EXCEPT ![s] = Idle]
        /\ UNCHANGED <<tz, users>>
        /\ IF ~Validates(r.doc)
           THEN /\ res' = AddCatch(r, ValidationMessage, 0, FALSE)
                /\ UNCHANGED costs
           ELSE IF \E k \in 1..Len(costs) : Same(costs[k])
           THEN /\ res' = Respond(r, 201,
                                  costs[CHOOSE k \in 1..Len(costs) : Same(costs[k])],
                                  1, FALSE)
                /\ UNCHANGED costs
           ELSE \/ /\ Len(costs) < MaxCosts
                   /\ costs' = Append(costs, Stored(r.doc, NextObjectId))
                   /\ res' = Respond(r, 201, Stored(r.doc, NextObjectId), 1, FALSE)
                \/ /\ res' = AddCatch(r, StorageMessage, 1, TRUE)
                   /\ UNCHANGED costs

\* newCost.save() settles: validation first, then the insert; the handler
\* resumes and answers.
AddSave(s) ==
    LET r == reqs[s] IN
    /\ r.op = "add" /\ r.pc = "save"
    /\ reqs' = [reqs EXCEPT ![s] = Idle]
    /\ UNCHANGED <<tz, users>>
    /\ IF ~Validates(r.doc)
       THEN /\ res' = AddCatch(r, ValidationMessage, 0, FALSE)
            /\ UNCHANGED costs
       ELSE \/ /\ Len(costs) < MaxCosts
               /\ costs' = Append(costs, Stored(r.doc, NextObjectId))
               /\ res' = Respond(r, 201, Stored(r.doc, NextObjectId), 1, FALSE)
            \/ /\ res' = AddCatch(r, StorageMessage, 1, TRUE)
               /\ UNCHANGED costs

(***************************************************************************)
(* GET /api/report                                                         *)
(***************************************************************************)
categories == <<"food", "health", "housing", "sport", "education">>

\* Mutant: the filter without its userid condition.
ReportFilterAnyUser(c, id, startDate, endDate) ==
    /\ c.createdAt >= startDate
    /\ c.createdAt < endDate

\* The filter {userid: id, createdAt: {$gte: startDate, $lt: endDate}}.
ReportFilter(c, id, startDate, endDate) ==
    /\ c.userid = id
    /\ c.createdAt >= startDate
    /\ c.createdAt < endDate

\* Cost.find(filter).lean(): the matching documents, in collection order.
FindCosts(id, startDate, endDate) ==
    SelectSeq(costs, LAMBDA c : ReportFilter(c, id, startDate, endDate))

\* Mutant: the day of the month in local time (getDate for getUTCDate).
EntryLocalDay(c) ==
    [sum |-> c.sum, description |-> c.description,
     day |-> DateFromTime(c.createdAt + tz)]

\* The entry pushed for one document.
Entry(c) ==
    [sum |-> c.sum, description |-> c.description,
     day |-> getUTCDate(c.createdAt)]

\* allCosts.forEach: each document's entry is pushed to its category's array.
RECURSIVE Populate(_, _)
Populate(grouped, allCosts) ==
    IF allCosts = <<>> THEN grouped
    ELSE LET c == Head(allCosts)
         IN  Populate([grouped EXCEPT ![c.category] =
                          Append(grouped[c.category], Entry(c))],
                      Tail(allCosts))

\* Mutant: only the categories that have entries are emitted.
CostsArrayNonEmpty(grouped) ==
    LET kept == SelectSeq(categories, LAMBDA cat : grouped[cat] # <<>>)
    IN  [i \in 1..Len(kept) |-> (kept[i] :> grouped[kept[i]])]

\* categories.map(cat => ({[cat]: grouped[cat]}))
CostsArray(grouped) ==
    [i \in 1..Len(categories) |-> (categories[i] :> grouped[categories[i]])]

ReportBody(r, allCosts) ==
    LET init == [cat \in {categories[i] : i \in 1..Len(categories)} |-> <<>>]
    IN  [userid |-> r.id, year |-> r.year, month |-> r.month,
         costs |-> CostsArray(Populate(init, allCosts))]

\* Up to the await: the parameters are parsed and checked, the interval is
\* computed and the query is issued.
ReportBegin(s, queries) ==
    /\ reqs[s] = Idle
    /\ \E q \in queries :
        LET id    == parseInt(q.id)
            year  == parseInt(q.year)
            month == parseInt(q.month)
        IN  IF id.nan \/ year.nan \/ month.nan
            THEN /\ res' = Respond([op |-> "report", pc |-> "begin", query |-> q],
                                   400,
                                   [error |-> "Invalid id, year, or month parameter."],
                                   0, FALSE)
                 /\ UNCHANGED reqs
            ELSE /\ reqs' = [reqs EXCEPT ![s] =
                        [op |-> "report", pc |-> "find", query |-> q,
                         id |-> id.v, year |-> year.v, month |-> month.v,
                         startDate |-> NewDate(year.v, month.v - 1, 1, tz),
                         endDate |-> NewDate(year.v, month.v, 1, tz)]]
                 /\ res' = NoResponse
    /\ UNCHANGED <<tz, users, costs>>

\* Mutant: a report that removes the documents it has reported.
ReportFindConsuming(s) ==
    LET r == reqs[s] IN
    /\ r.op = "report" /\ r.pc = "find"
    /\ reqs' = [reqs EXCEPT ![s] = Idle]
    /\ \/ /\ res' = Respond(r, 200,
                            ReportBody(r, FindCosts(r.id, r.startDate, r.endDate)),
                            1, FALSE)
          /\ costs' = SelectSeq(costs, LAMBDA c :
                            ~ReportFilter(c, r.id, r.startDate, r.endDate))
       \/ /\ res' = Respond(r, 500, [error |-> StorageMessage], 1, TRUE)
          /\ UNCHANGED costs
    /\ UNCHANGED <<tz, users>>

\* The query settles; the handler resumes, groups and answers, or catches.
ReportFind(s) ==
    LET r == reqs[s] IN
    /\ r.op = "report" /\ r.pc = "find"
    /\ reqs' = [reqs EXCEPT ![s] = Idle]
    /\ \/ res' = Respond(r, 200,
                         ReportBody(r, FindCosts(r.id, r.startDate, r.endDate)),
                         1, FALSE)
       \/ res' = Respond(r, 500, [error |-> StorageMessage], 1, TRUE)
    /\ UNCHANGED <<tz, users, costs>>

(***************************************************************************)
(* GET /api/users/:id                                                      *)
(***************************************************************************)
\* userCosts.reduce((sum, cost) => sum + cost.sum, 0)
RECURSIVE Reduce(_, _)
Reduce(userCosts, sum) ==
    IF userCosts = <<>> THEN sum
    ELSE Reduce(Tail(userCosts), sum + Head(userCosts).sum)

\* Mutant: Cost.find({}) for Cost.find({userid: id}).
FindEveryCost(id) == costs

\* Cost.find({userid: id}).lean()
FindUserCosts(id) == SelectSeq(costs, LAMBDA c : c.userid = id)

\* Up to the first await: the id is parsed and checked, the lookup issued.
SummaryBegin(s, ids) ==
    /\ reqs[s] = Idle
    /\ \E i \in ids :
        LET p  == [id |-> i]
            id == parseInt(i)
        IN  IF id.nan
            THEN /\ res' = Respond([op |-> "summary", pc |-> "begin", params |-> p],
                                   400, [error |-> "Invalid user ID."], 0, FALSE)
                 /\ UNCHANGED reqs
            ELSE /\ reqs' = [reqs EXCEPT ![s] =
                        [op |-> "summary", pc |-> "findOne", params |-> p,
                         id |-> id.v]]
                 /\ res' = NoResponse
    /\ UNCHANGED <<tz, users, costs>>

\* User.findOne({id}) settles; a user found, the cost query is issued.
SummaryFindOne(s) ==
    LET r == reqs[s] IN
    /\ r.op = "summary" /\ r.pc = "findOne"
    /\ \/ /\ \E u \in users : u.id = r.id
          /\ reqs' = [reqs EXCEPT ![s] =
                [op |-> "summary", pc |-> "find", params |-> r.params,
                 id |-> r.id,
                 userDoc |-> CHOOSE u \in users : u.id = r.id]]
          /\ res' = NoResponse
       \/ /\ ~\E u \in users : u.id = r.id
          /\ reqs' = [reqs EXCEPT ![s] = Idle]
          /\ res' = Respond(r, 404, [error |-> "User not found."], 1, FALSE)
       \/ /\ reqs' = [reqs EXCEPT ![s] = Idle]
          /\ res' = Respond(r, 500, [error |-> StorageMessage], 1, TRUE)
    /\ UNCHANGED <<tz, users, costs>>

\* Mutant: the total also counts the add requests of the user still in
\* flight (each at the sum of the base body, 5).
SummaryFindCountingInFlight(s) ==
    LET r == reqs[s]
        pending == {x \in Slots : /\ reqs[x].op = "add"
                                  /\ Validates(reqs[x].doc)
                                  /\ reqs[x].doc.userid.n = r.id}
    IN  /\ r.op = "summary" /\ r.pc = "find"
        /\ reqs' = [reqs EXCEPT ![s] = Idle]
        /\ \/ res' = Respond(r, 200,
                             [id |-> r.userDoc.id,
                              first_name |-> r.userDoc.first_name,
                              last_name |-> r.userDoc.last_name,
                              total |-> Reduce(FindUserCosts(r.id), 0)
                                        + 5 * Cardinality(pending)],
                             2, FALSE)
           \/ res' = Respond(r, 500, [error |-> StorageMessage], 2, TRUE)
        /\ UNCHANGED <<tz, users, costs>>

\* Cost.find({userid: id}) settles; the handler sums and answers.
SummaryFind(s) ==
    LET r == reqs[s] IN
    /\ r.op = "summary" /\ r.pc = "find"
    /\ reqs' = [reqs EXCEPT ![s] = Idle]
    /\ \/ res' = Respond(r, 200,
                         [id |-> r.userDoc.id,
                          first_name |-> r.userDoc.first_name,
                          last_name |-> r.userDoc.last_name,
                          total |-> Reduce(FindUserCosts(r.id), 0)],
                         2, FALSE)
       \/ res' = Respond(r, 500, [error |-> StorageMessage], 2, TRUE)
    /\ UNCHANGED <<tz, users, costs>>

(***************************************************************************)
(* GET /api/about                                                          *)
(***************************************************************************)
team ==
    <<[id |-> "208995068", first_name |-> "Liron", last_name |-> "Golan",
       birthday |-> "03/06/1997", marital_status |-> "single"],
      [id |-> "206845570", first_name |-> "Paz", last_name |-> "Elisha",
       birthday |-> "04/10/1998", marital_status |-> "single"]>>

About ==
    /\ res' = Respond([op |-> "about"], 200, team, 0, FALSE)
    /\ UNCHANGED <<tz, users, costs, reqs>>

(***************************************************************************)
(* Specifications.  Every one starts from empty collections in a process   *)
(* of some time zone and interleaves the steps of the handlers it covers;  *)
(* they differ in the handlers and in the inputs they draw.                *)
(***************************************************************************)
InitIn(zones) ==
    /\ tz \in zones
    /\ users = {}
    /\ costs = <<>>
    /\ reqs = [s \in Slots |-> Idle]
    /\ res = NoResponse

\* Cost creation: add requests, interleaved.
InitAdd == InitIn({0})

NextAdd ==
    \/ \E s \in Slots : AddBegin(s, Bodies)
    \/ \E s \in Slots : AddSave(s)

SpecAdd == InitAdd /\ [][NextAdd]_vars

\* Monthly reports over a collection that grows while they run.
InitReport == InitIn(TimeZones)

NextReport ==
    \/ \E c \in SampleCosts : CreateCost(c)
    \/ \E s \in Slots : ReportBegin(s, Queries)
    \/ \E s \in Slots : ReportFind(s)

SpecReport == InitReport /\ [][NextReport]_vars

\* User summaries interleaved with add requests.
InitSummary == InitIn({0})

NextSummary ==
    \/ \E u \in SampleUsers : CreateUser(u)
    \/ \E c \in SampleCosts : CreateCost(c)
    \/ \E s \in Slots : AddBegin(s, BaseBodies)
    \/ \E s \in Slots : AddSave(s)
    \/ \E s \in Slots : SummaryBegin(s, ParamIds)
    \/ \E s \in Slots : SummaryFindOne(s)
    \/ \E s \in Slots : SummaryFind(s)

SpecSummary == InitSummary /\ [][NextSummary]_vars

\* Calendar sweep: one stored cost of user 1, one report at a time, over
\* every month of the swept years in a process of every time zone.
InitCal ==
    /\ tz \in TimeZones
    /\ users = {}
    /\ \E t \in CalInstants :
        costs = <<[_id |-> 1, description |-> "Lunch", category |-> "food",
                   userid |-> 1, sum |-> 12, createdAt |-> t]>>
    /\ reqs = [s \in Slots |-> Idle]
    /\ res = NoResponse

NextCal ==
    \/ ReportBegin(1, CalQueries)
    \/ ReportFind(1)

SpecCal == InitCal /\ [][NextCal]_vars

\* Partition sweep: two stored costs of user 1, one report at a time over
\* every month of the swept years, in a process of every time zone.
PartYears == {99, 1999, 2024, 2025}

PartQueries ==
    [id : {"1"}, year : {"99", "1999", "2024", "2025"},
     month : {"1", "2", "3", "4", "5", "6", "7", "8", "9", "10", "11", "12"}]

PartInstants ==
    {CivilInstant(p[1], p[2], 1, 0, 0) - z :
        p \in {<<1999, 6>>, <<1999, 12>>, <<2024, 6>>, <<2024, 12>>, <<2025, 1>>},
        z \in TimeZones}

InitPart ==
    /\ tz \in TimeZones
    /\ users = {}
    /\ \E t \in PartInstants :
        costs = <<[_id |-> 1, description |-> "Lunch", category |-> "food",
                   userid |-> 1, sum |-> 12, createdAt |-> t],
                  [_id |-> 2, description |-> "Gym", category |-> "sport",
                   userid |-> 1, sum |-> 20,
                   createdAt |-> CivilInstant(2024, 6, 15, 14, 0)]>>
    /\ reqs = [s \in Slots |-> Idle]
    /\ res = NoResponse

NextPart ==
    \/ ReportBegin(1, PartQueries)
    \/ ReportFind(1)

SpecPart == InitPart /\ [][NextPart]_vars

\* The whole service: every handler, on one base input each.
Init == InitIn(TimeZones)

Next ==
    \/ \E u \in SampleUsers : CreateUser(u)
    \/ \E c \in SampleCosts : CreateCost(c)
    \/ \E s \in Slots : AddBegin(s, BaseBodies)
    \/ \E s \in Slots : AddSave(s)
    \/ \E s \in Slots : ReportBegin(s, {BaseQuery})
    \/ \E s \in Slots : ReportFind(s)
    \/ \E s \in Slots : SummaryBegin(s, {"1"})
    \/ \E s \in Slots : SummaryFindOne(s)
    \/ \E s \in Slots : SummaryFind(s)
    \/ About

Spec == Init /\ [][Next]_vars

(***************************************************************************)
(* Properties.  res is the response sent by the step just taken, so a      *)
(* state predicate on res and the collections relates a response to the    *)
(* storage state in which it was computed.                                 *)
(***************************************************************************)
IsReport200 == res.req.op = "report" /\ res.status = 200

\* The text s starts, after blanks and at most one sign, with a digit: what
\* the handlers accept as an integer.
ParsesAsInteger(s) ==
    LET cs == Chars(s)
    IN  \E n \in 1..Len(cs) :
            /\ IsDigit(cs[n])
            /\ \/ \A k \in 1..(n - 1) : cs[k] = " "
               \/ /\ n > 1
                  /\ cs[n - 1] \in {"-", "+"}
                  /\ \A k \in 1..(n - 2) : cs[k] = " "

\* C1: the costs array of every 200 report response has exactly 5 entries,
\* each an object with exactly one key, and the keys are food, health,
\* housing, sport, education in that order, whatever storage holds.
C1_FiveGroupsInOrder ==
    IsReport200 =>
        /\ Len(res.body.costs) = 5
        /\ \A i \in 1..5 :
            DOMAIN res.body.costs[i] =
                {<<"food", "health", "housing", "sport", "education">>[i]}

\* C1 witness: a 200 report whose five groups are all empty although the
\* collection holds costs.
C1_Witness ==
    /\ IsReport200
    /\ costs # <<>>
    /\ \A i \in 1..Len(res.body.costs) :
        \A cat \in DOMAIN res.body.costs[i] : res.body.costs[i][cat] = <<>>

\* The stored documents (by position) a report request r is about.
Matching(r) ==
    {k \in 1..Len(costs) :
        /\ costs[k].userid = r.id
        /\ r.startDate <= costs[k].createdAt
        /\ costs[k].createdAt < r.endDate}

\* C2: the entries of a 200 report are exactly the stored costs of the
\* requested user with createdAt in [startDate, endDate): every such cost is
\* in the group of its own category, once, with its own sum and description,
\* and the groups hold nothing else.
C2_ReportIsTheMatchingCosts ==
    IsReport200 =>
        LET r == res.req
            groups == res.body.costs
        IN  /\ \A k \in Matching(r) :
                \E i \in 1..Len(groups) : costs[k].category \in DOMAIN groups[i]
            /\ \A i \in 1..Len(groups) : \A cat \in DOMAIN groups[i] :
                LET bucket == groups[i][cat]
                    docs   == {k \in Matching(r) : costs[k].category = cat}
                    Same(e, c) == e.sum = c.sum /\ e.description = c.description
                IN  /\ Len(bucket) = Cardinality(docs)
                    /\ \A k \in docs :
                        Cardinality({j \in 1..Len(bucket) : Same(bucket[j], costs[k])})
                            = Cardinality({x \in docs : Same(costs[x], costs[k])})

\* C2 witness: a 200 report with an entry, computed while the collection
\* also holds a cost the request is not about.
C2_Witness ==
    /\ IsReport200
    /\ Matching(res.req) # {}
    /\ Matching(res.req) # 1..Len(costs)
    /\ \E i \in 1..Len(res.body.costs) :
        \E cat \in DOMAIN res.body.costs[i] : res.body.costs[i][cat] # <<>>

\* C9: a report request in which id, year or month is no integer is answered
\* 400 with the invalid-parameter error, straight from the handler's first
\* step and without any storage call.
C9_InvalidReportParameter ==
    (/\ res.req.op = "report"
     /\ \E f \in {"id", "year", "month"} : ~ParsesAsInteger(res.req.query[f]))
    =>  /\ res.status = 400
        /\ res.body = [error |-> "Invalid id, year, or month parameter."]
        /\ res.calls = 0
        /\ res.req.pc = "begin"

\* C9 witness: a request with a proper id and year and an empty month is
\* turned down while the collection holds costs.
C9_Witness ==
    /\ res.req.op = "report"
    /\ res.status = 400
    /\ res.req.query = [id |-> "1", year |-> "2025", month |-> ""]
    /\ costs # <<>>

\* The first instant of month m (1..12) of year y in the zone UTC + z.
FirstInstant(y, m, z) == CivilInstant(y, m, 1, 0, 0) - z

\* Stored cost k has an entry in the report just answered.
Included(k) ==
    \E i \in 1..Len(res.body.costs) :
        /\ costs[k].category \in DOMAIN res.body.costs[i]
        /\ \E e \in {res.body.costs[i][costs[k].category][j] :
                        j \in 1..Len(res.body.costs[i][costs[k].category])} :
            e.sum = costs[k].sum /\ e.description = costs[k].description

\* C3: for every year and every month M in 1..12, the report for (year, M)
\* includes a cost of the user created at the first instant of month M and
\* excludes one created at the first instant of the following month, which
\* for M = 12 is January of year + 1 (instants of the server's zone).
C3_MonthBoundaries ==
    (IsReport200 /\ res.req.month \in 1..12) =>
        LET r    == res.req
            next == IF r.month = 12 THEN FirstInstant(r.year + 1, 1, tz)
                    ELSE FirstInstant(r.year, r.month + 1, tz)
        IN  \A k \in 1..Len(costs) :
                costs[k].userid = r.id =>
                    /\ costs[k].createdAt = FirstInstant(r.year, r.month, tz)
                            => Included(k)
                    /\ costs[k].createdAt = next => ~Included(k)

\* C3, for the years new Date() takes as written (not 0..99): the same
\* boundaries hold.
C3_MonthBoundariesFromYear100 ==
    (res.req.op = "report" /\ res.req.pc = "find" /\ res.req.year \notin 0..99)
        => C3_MonthBoundaries

\* The day of the month of instant t in UTC, from the calendar forwards: the
\* d for which t lies in day d of some month of some year.
IsUTCDay(t, d) ==
    \E y \in (YearFromTime(t) - 1)..(YearFromTime(t) + 1), m \in 1..12 :
        /\ CivilInstant(y, m, d, 0, 0) <= t
        /\ t < CivilInstant(y, m, d, 0, 0) + MinPerDay
        /\ d <= DaysBeforeMonth(m, DaysInYear(y))
                    - DaysBeforeMonth(m - 1, DaysInYear(y))

\* C4: the day of every report entry is the UTC day of the month of the
\* createdAt of the cost it stands for, whatever the zone of the process.
C4_DayIsUTCDay ==
    IsReport200 =>
        /\ \A k \in Matching(res.req) : Included(k)
        /\ \A i \in 1..Len(res.body.costs) : \A cat \in DOMAIN res.body.costs[i] :
            \A j \in 1..Len(res.body.costs[i][cat]) :
                \E k \in Matching(res.req) :
                    /\ costs[k].category = cat
                    /\ res.body.costs[i][cat][j].sum = costs[k].sum
                    /\ IsUTCDay(costs[k].createdAt, res.body.costs[i][cat][j].day)
                    /\ res.body.costs[i][cat][j].day \in 1..31

\* C4 witness: a report entry for a cost whose local day of the month (in
\* the zone of the process, which also fixed the interval) is not its UTC day.
C4_Witness ==
    /\ IsReport200
    /\ \E k \in Matching(res.req) :
        /\ Included(k)
        /\ ~IsUTCDay(costs[k].createdAt + tz, res.body.costs[1]["food"][1].day)
        /\ IsUTCDay(costs[k].createdAt, res.body.costs[1]["food"][1].day)

\* The add request just answered, if the step just taken answered one.
IsAddResponse == res.req.op = "add" /\ res.status # 0

TheFive == {"food", "health", "housing", "sport", "education"}

CategoryInEnum(body) ==
    body.category.t = "string" /\ body.category.s \in TheFive

AllPresent(body) ==
    \A f \in {"description", "category", "userid", "sum"} :
        body[f].t # "undefined"

\* The response is 201 and echoes the four submitted values with an
\* identifier, and the collection holds a cost with that identifier and
\* those values.
Created(body) ==
    /\ res.status = 201
    /\ "_id" \in DOMAIN res.body
    /\ body.description = Str(res.body.description)
    /\ body.category = Str(res.body.category)
    /\ body.userid = Num(res.body.userid)
    /\ body.sum = Num(res.body.sum)
    /\ \E k \in 1..Len(costs) :
        /\ costs[k]._id = res.body._id
        /\ body.description = Str(costs[k].description)
        /\ body.category = Str(costs[k].category)
        /\ body.userid = Num(costs[k].userid)
        /\ body.sum = Num(costs[k].sum)

\* C5 as claimed: every add request with the four fields present and the
\* category in the enumeration is answered 201 with exactly the submitted
\* values and an identifier, and is stored.
C5_PresentFieldsAreCreated ==
    (IsAddResponse /\ AllPresent(res.req.body) /\ CategoryInEnum(res.req.body))
        => Created(res.req.body)

\* C5 amended: an add request whose description is a non-empty string, whose
\* category is in the enumeration and whose userid and sum are numbers is,
\* unless storage rejects the insert, answered 201 with exactly the
\* submitted values and an identifier, and is stored.
C5_WellTypedFieldsAreCreated ==
    (/\ IsAddResponse
     /\ ~res.fault
     /\ res.req.body.description.t = "string"
     /\ res.req.body.description.s # ""
     /\ CategoryInEnum(res.req.body)
     /\ res.req.body.userid.t = "number"
     /\ res.req.body.sum.t = "number")
        => Created(res.req.body)

\* C5 witness: a 201 for a well-typed body that adds a second document.
C5_Witness ==
    /\ IsAddResponse
    /\ res.status = 201
    /\ res.req.body.category = Str("sport")
    /\ Len(costs) = 2
    /\ costs[2]._id = res.body._id
    /\ costs[1]._id # res.body._id

\* C6: an add request that omits one of the four fields, or whose category
\* is not in the enumeration, is answered 400 with an error body and leaves
\* the Costs collection as it was; and every stored cost has a category of
\* the enumeration.
C6_InvalidAddIsRejected ==
    /\ [](/\ (IsAddResponse /\ (~AllPresent(res.req.body)
                                    \/ ~CategoryInEnum(res.req.body)))
                => (res.status = 400 /\ DOMAIN res.body = {"error"})
          /\ \A k \in 1..Len(costs) : costs[k].category \in TheFive)
    /\ [][(/\ res'.req.op = "add"
           /\ res'.status # 0
           /\ (~AllPresent(res'.req.body) \/ ~CategoryInEnum(res'.req.body)))
                => costs' = costs]_vars

\* C6 witness: a body with a category outside the enumeration is turned
\* down while the collection holds a cost.
C6_Witness ==
    /\ IsAddResponse
    /\ res.status = 400
    /\ res.req.body.category = Str("other")
    /\ AllPresent(res.req.body)
    /\ costs # <<>>

IsSummaryResponse == res.req.op = "summary" /\ res.status # 0

\* The sum of the sum fields of the stored costs at the positions in ks.
RECURSIVE SumAt(_)
SumAt(ks) ==
    IF ks = {} THEN 0
    ELSE LET k == CHOOSE x \in ks : TRUE
         IN  costs[k].sum + SumAt(ks \ {k})

\* C7: the total of a 200 user summary is the sum of the sum fields of all
\* stored costs with the user's id as userid, whatever their createdAt, 0
\* when there are none; the response carries the user's id, first_name and
\* last_name.
C7_TotalIsSumOfUserCosts ==
    (IsSummaryResponse /\ res.status = 200) =>
        LET mine == {k \in 1..Len(costs) : costs[k].userid = res.req.id}
        IN  /\ res.body.total = SumAt(mine)
            /\ mine = {} => res.body.total = 0
            /\ res.body.id = res.req.id
            /\ \E u \in users :
                /\ u.id = res.body.id
                /\ u.first_name = res.body.first_name
                /\ u.last_name = res.body.last_name
            /\ DOMAIN res.body = {"id", "first_name", "last_name", "total"}

\* C7 witness: a summary that adds up two costs of the user created in
\* different months.
C7_Witness ==
    /\ IsSummaryResponse
    /\ res.status = 200
    /\ \E k, j \in 1..Len(costs) :
        /\ costs[k].userid = res.req.id
        /\ costs[j].userid = res.req.id
        /\ costs[k].createdAt + 28 * MinPerDay < costs[j].createdAt
    /\ res.body.total > 500

\* C8: a user summary request whose id is no integer is answered 400
\* {"error": "Invalid user ID."} without any storage lookup; one whose id
\* is an integer that no User carries is answered, when the lookup is
\* answered, 404 {"error": "User not found."}, also when stored costs carry
\* that userid.
C8_InvalidOrUnknownUser ==
    /\ (res.req.op = "summary" /\ ~ParsesAsInteger(res.req.params.id)) =>
            /\ res.status = 400
            /\ res.body = [error |-> "Invalid user ID."]
            /\ res.calls = 0
            /\ res.req.pc = "begin"
    /\ (/\ IsSummaryResponse
        /\ ParsesAsInteger(res.req.params.id)
        /\ ~res.fault
        /\ ~\E u \in users : "id" \in DOMAIN res.req /\ u.id = res.req.id) =>
            /\ res.status = 404
            /\ res.body = [error |-> "User not found."]

\* C8 witness: 404 for an id that stored costs carry as userid.
C8_Witness ==
    /\ IsSummaryResponse
    /\ res.status = 404
    /\ \E k \in 1..Len(costs) : costs[k].userid = res.req.id

\* C10: whenever a storage call of an add, report or summary request fails,
\* the request is answered 500 with the underlying message, after that one
\* failed call (no retry).
C10_StorageFailureIs500 ==
    res.fault =>
        /\ res.status = 500
        /\ res.body = [error |-> StorageMessage]

\* C10, for the two reading handlers: a failed storage call of a report or
\* summary request is answered 500 with the underlying message, and the
\* handler issued no call after the failed one.
C10_ReadFailureIs500 ==
    (res.fault /\ res.req.op \in {"report", "summary"}) =>
        /\ res.status = 500
        /\ res.body = [error |-> StorageMessage]
        /\ res.calls = IF res.req.pc = "find" /\ res.req.op = "summary" THEN 2 ELSE 1

\* The number of entries of all groups of the report just answered.
RECURSIVE EntryCount(_)
EntryCount(groups) ==
    IF groups = <<>> THEN 0
    ELSE LET g == Head(groups)
         IN  Len(g[CHOOSE cat \in DOMAIN g : TRUE]) + EntryCount(Tail(groups))

\* C11: add does not deduplicate.  Every add answered 201, whatever the
\* collection already holds, appends one record, the one in the response,
\* whose identifier no stored record carries; identifiers stay pairwise
\* distinct; and every stored record counts on its own: a 200 report has as
\* many entries as there are stored records matching it, and a 200 summary
\* totals the records of the user position by position.
C11_NoDeduplication ==
    /\ [](/\ \A k, j \in 1..Len(costs) : costs[k]._id = costs[j]._id => k = j
          /\ IsReport200 =>
                EntryCount(res.body.costs) = Cardinality(Matching(res.req))
          /\ (IsSummaryResponse /\ res.status = 200) =>
                res.body.total =
                    SumAt({k \in 1..Len(costs) : costs[k].userid = res.req.id}))
    /\ [][(res'.req.op = "add" /\ res'.status = 201) =>
            /\ costs' = Append(costs, res'.body)
            /\ \A k \in 1..Len(costs) : costs[k]._id # res'.body._id]_vars

\* C11 witness: a report with two entries for two stored records that two
\* add requests with the same body left, alike in all but the identifier.
C11_Witness ==
    /\ IsReport200
    /\ Len(costs) = 2
    /\ costs[1].description = "Lunch"
    /\ [costs[2] EXCEPT !._id = costs[1]._id] = costs[1]
    /\ costs[1]._id # costs[2]._id
    /\ Len(res.body.costs[1]["food"]) = 2

\* A step of a report, summary or directory request: one that answers such
\* a request or moves one in flight.
ReadStep ==
    \/ res'.req.op \in {"report", "summary", "about"}
    \/ \E s \in Slots :
            /\ reqs'[s] # reqs[s]
            /\ reqs[s].op \in {"report", "summary"}
                    \/ reqs'[s].op \in {"report", "summary"}

\* C12: the collections change by insertion only.  No step modifies or
\* removes a stored Cost or User; a step of a report, summary or directory
\* request, whatever it answers, leaves both collections as they were; an
\* add answered 201 inserts exactly one Cost and an add answered otherwise
\* inserts none.
C12_StorageChangesByInsertionOnly ==
    [][/\ Len(costs') >= Len(costs)
       /\ SubSeq(costs', 1, Len(costs)) = costs
       /\ users \subseteq users'
       /\ ReadStep => (costs' = costs /\ users' = users)
       /\ (res'.req.op = "add" /\ res'.status = 201) =>
            (Len(costs') = Len(costs) + 1 /\ users' = users)
       /\ (res'.req.op = "add" /\ res'.status # 201) =>
            (costs' = costs /\ users' = users)]_vars

\* C12 witness: a report with entries has been answered over collections
\* that hold a user and costs, some reported and some not.
C12_Witness ==
    /\ IsReport200
    /\ users # {}
    /\ Len(costs) = MaxCosts
    /\ Matching(res.req) \notin {{}, 1..Len(costs)}
    /\ EntryCount(res.body.costs) > 0

\* Stored cost k matches the query the handler issues for (y, m).
InReport(k, y, m) ==
    ReportFilter(costs[k], costs[k].userid,
                 NewDate(y, m - 1, 1, tz), NewDate(y, m, 1, tz))

\* The (year, month) pairs of the years ys whose report holds stored cost k.
ReportsOf(k, ys) == {p \in ys \X (1..12) : InReport(k, p[1], p[2])}

\* The sum of the entries of the reports of all (year, month) pairs of the
\* years ys, for the costs at positions ks: each cost once per report that
\* holds it.
RECURSIVE SumOverReports(_, _)
SumOverReports(ks, ys) ==
    IF ks = {} THEN 0
    ELSE LET k == CHOOSE x \in ks : TRUE
         IN  costs[k].sum * Cardinality(ReportsOf(k, ys))
                + SumOverReports(ks \ {k}, ys)

\* The reports of the years ys partition the costs of the user of the report
\* just answered: the report holds exactly the costs its pair is a pair of,
\* every cost of the user has exactly one pair, and the entries of all the
\* reports add up to the user's total.
PartitionOver(ys) ==
    LET r    == res.req
        mine == {k \in 1..Len(costs) : costs[k].userid = r.id}
    IN  /\ \A k \in mine :
            /\ Included(k) <=> <<r.year, r.month>> \in ReportsOf(k, ys \cup {r.year})
            /\ Cardinality(ReportsOf(k, ys)) = 1
        /\ SumOverReports(mine, ys) = SumAt(mine)

\* C13: reports partition a user's costs on createdAt: over the swept
\* years, every stored cost of the user is in the report of exactly one
\* (year, month) pair with month in 1..12, and the entries of all monthly
\* reports add up to the user's total.
C13_ReportsPartitionCosts ==
    IsReport200 => PartitionOver(PartYears)

\* C13, for the years new Date() takes as written (not 0..99): over those
\* years the monthly reports do partition the user's costs.
C13_PartitionFromYear100 ==
    IsReport200 => PartitionOver(PartYears \ (0..99))

\* C14: the interval of a report is taken in one fixed reference zone: the
\* records a 200 report holds are those the same request over the same
\* collection holds in a process of any other time zone.
C14_SameReportInEveryZone ==
    IsReport200 =>
        \A z \in TimeZones : \A k \in 1..Len(costs) :
            costs[k].userid = res.req.id =>
                (Included(k) <=>
                    ReportFilter(costs[k], res.req.id,
                                 NewDate(res.req.year, res.req.month - 1, 1, z),
                                 NewDate(res.req.year, res.req.month, 1, z)))

\* C14, as the handler has it: the bounds are the first instants of the
\* month and of the following month in the zone of the process itself (for
\* the years new Date() takes as written).
C14_BoundsInProcessZone ==
    (res.req.op = "report" /\ res.req.pc = "find" /\ res.req.year \notin 0..99
        /\ res.req.month \in 1..12) =>
        /\ res.req.startDate = FirstInstant(res.req.year, res.req.month, tz)
        /\ res.req.endDate =
                IF res.req.month = 12
                THEN FirstInstant(res.req.year + 1, 1, tz)
                ELSE FirstInstant(res.req.year, res.req.month + 1, tz)

\* C15: a summary interleaved with add requests totals the user's costs as
\* stored at the one instant its cost query settles: the step that answers
\* 200 leaves the collection as it is and its total is the sum over the
\* costs of the user stored at that step, each once and whole, none of an
\* add still in flight; and as no step removes or alters a stored cost,
\* a cost whose add was answered before the summary began is among them,
\* while one whose add begins after the answer is not.
C15_TotalAtTheQueryInstant ==
    /\ [][(res'.req.op = "summary" /\ res'.status = 200) =>
            /\ costs' = costs
            /\ res'.body.total =
                    SumAt({k \in 1..Len(costs) : costs[k].userid = res'.req.id})]_vars
    /\ [][/\ Len(costs') >= Len(costs)
          /\ SubSeq(costs', 1, Len(costs)) = costs
          /\ (Len(costs') > Len(costs)) =>
                \A s \in Slots : reqs[s].op = "summary" => reqs'[s] = reqs[s]]_vars

\* C15 witness: a summary is answered with the cost of an add that was
\* answered earlier while another add for the same user is still in flight:
\* the total holds the first and not the second.
C15_Witness ==
    /\ IsSummaryResponse
    /\ res.status = 200
    /\ Len(costs) = 1
    /\ costs[1].description = "Lunch"
    /\ costs[1].userid = res.req.id
    /\ res.body.total = costs[1].sum
    /\ \E s \in Slots : /\ reqs[s].op = "add"
                        /\ reqs[s].doc.userid.n = res.req.id

====
